---- MODULE Spec2Model ----
(***************************************************************************)
(* El-AgusTin backend: the document-store accessors (matches/models.py),   *)
(* the sports-data API client (matches/api_client.py), the sync handlers   *)
(* (matches/views.py) and the coin ledger (users/models.py, users/views.py,*)
(* matches/management/commands/assign_coins.py).                           *)
(*                                                                         *)
(* Conventions.  Odds are kept in tenths (20 is 2.0).  A point in time is  *)
(* a tick count; an ISO-8601 string is the pair <<day, tick of the day>>,  *)
(* compared position by position as Python compares strings.  Coins are    *)
(* whole coins.  Documents carry the fields the handlers read or write;    *)
(* last_updated is left out (it changes on every write, which is why an    *)
(* update that matches a document always counts it as modified).           *)
(***************************************************************************)
EXTENDS Integers, Sequences, FiniteSets, TLC

VARIABLES
    matches,      \* the matches collection, in insertion order
    teams,        \* the teams collection, in insertion order
    leagues,      \* the leagues collection, in insertion order
    users,        \* the relational users table: username -> row
    mongo_users,  \* the mirrored users collection: username -> document
    now,          \* the wall clock, in ticks
    procs,        \* the requests and command runs in flight
    credited,     \* history: coins credited to each user by batch operations
    grants,       \* history: non-forced command credits per <<user, jornada>>
    started_ops,  \* history: the number of ledger operations started
    api,          \* the outcome of the latest API client call
    api_prev,     \* the outcome of the API client call before it
    last          \* the latest operation: its name, inputs and result

vars == <<matches, teams, leagues, users, mongo_users, now, procs, credited, grants,
          started_ops, api, api_prev, last>>

storeVars  == <<matches, teams, leagues>>
ledgerVars == <<users, mongo_users, now, procs, credited, grants, started_ops>>
apiVars    == <<api, api_prev>>

----------------------------------------------------------------------------
(* Bounds of the model *)

MaxFixture == 2     \* fixture ids 1..MaxFixture
MaxTime    == 2     \* the clock stops at MaxTime
MaxOps     == 2     \* ledger operations started in one behaviour
DayTicks   == 2     \* ticks in one day

(* Values *)

Null      == -1                    \* Python None for a number
NoDate    == <<>>                  \* a document without 'date'
NoJornada == ""                    \* a payload without 'jornada'

FixtureIds == 1..MaxFixture

\* datetime.isoformat(): date part, then time part
isoformat(t) == <<t \div DayTicks, t % DayTicks>>

\* Python's > on two strings of the same layout: the first differing position decides
StrGT(a, b) ==
    \E i \in 1..Len(a) :
        /\ i <= Len(b)
        /\ a[i] > b[i]
        /\ \A j \in 1..(i - 1) : a[j] = b[j]

\* Python's min() over strings
StrMin(S) == CHOOSE d \in S : \A e \in S : ~StrGT(d, e)

----------------------------------------------------------------------------
(* Match.create_or_update, matches/models.py *)

DefaultOdds == [home |-> 20, draw |-> 30, away |-> 40]

OddKeys == {"home", "draw", "away"}

\* a value of the payload's odds dict: its Python type and what it denotes.
\* kind "missing": the key is absent.  A str carries the number it parses to,
\* or Unparsable.
Unparsable == -99

OddMissing == [kind |-> "missing", val |-> 0]

\* isinstance(bet_value, (int, float, str, Decimal)); bool is a subclass of int
IsOddInstance(v) == v.kind \in {"int", "float", "str", "bool"}

\* Decimal(str(bet_value)) raises decimal.InvalidOperation for "True" and for
\* a string that is no number
DecimalRaises(v) ==
    \/ v.kind = "bool"
    \/ v.kind = "str" /\ v.val = Unparsable

\* float(Decimal(str(bet_value))), in tenths
DecimalOf(v) == IF v.kind = "int" THEN v.val * 10 ELSE v.val

OddsIsDict(match_data) == match_data.odds_kind = "dict"

OddsRaises(match_data) ==
    /\ OddsIsDict(match_data)
    /\ \E k \in OddKeys :
          IsOddInstance(match_data.odds[k]) /\ DecimalRaises(match_data.odds[k])

MatchOdds(match_data) ==
    [k \in OddKeys |->
        IF OddsIsDict(match_data) /\ IsOddInstance(match_data.odds[k])
        THEN DecimalOf(match_data.odds[k])
        ELSE DefaultOdds[k]]

MatchDoc(match_data) ==
    [fixture_id |-> match_data.fixture_id,
     league_id  |-> match_data.league_id,
     date       |-> match_data.date,
     status     |-> match_data.status,
     score      |-> match_data.goals,
     odds       |-> MatchOdds(match_data),
     is_active  |-> TRUE,
     jornada    |-> IF match_data.jornada = NoJornada THEN "current"
                    ELSE match_data.jornada]

\* the index of the first document of coll with coll[i][key] = value, or 0
FindOne(coll, key, value) ==
    IF \E i \in 1..Len(coll) : coll[i][key] = value
    THEN CHOOSE i \in 1..Len(coll) :
            /\ coll[i][key] = value
            /\ \A j \in 1..(i - 1) : coll[j][key] # value
    ELSE 0

InsertAlways(coll, key, doc) == Append(coll, doc)

\* an upsert that leaves is_active and jornada of a matched document alone
UpsertKeepingFlags(coll, key, doc) ==
    LET i == FindOne(coll, key, doc[key])
    IN  IF i = 0 THEN Append(coll, doc)
        ELSE [coll EXCEPT ![i] =
                 [f \in DOMAIN doc |->
                     IF f \in {"is_active", "jornada"} THEN coll[i][f] ELSE doc[f]]]

\* collection.update_one({key: doc[key]}, {'$set': doc}, upsert=True)
UpdateOneUpsert(coll, key, doc) ==
    LET i == FindOne(coll, key, doc[key])
    IN  IF i = 0 THEN Append(coll, doc)
        ELSE [coll EXCEPT ![i] = doc]

\* the result of Match.create_or_update: "none" (no fixture id), "raised"
\* (Decimal rejected an odd) or "saved"
MatchCreateResult(match_data) ==
    IF match_data.fixture_id = 0 THEN "none"
    ELSE IF OddsRaises(match_data) THEN "raised"
    ELSE "saved"

ScoreOf(coll, fixture_id) ==
    LET i == FindOne(coll, "fixture_id", fixture_id)
    IN  IF i = 0 THEN [home |-> Null, away |-> Null] ELSE coll[i].score

\* the payloads create_or_update is called with
NoGoals == [home |-> Null, away |-> Null]

OddsAbsent == [k \in OddKeys |-> OddMissing]

OddsSamples ==
    { [kind |-> "absent", odds |-> OddsAbsent],
      [kind |-> "list",   odds |-> OddsAbsent],
      [kind |-> "dict",   odds |-> [home |-> [kind |-> "float", val |-> 15],
                                    draw |-> [kind |-> "str",   val |-> 35],
                                    away |-> [kind |-> "int",   val |-> 6]]],
      [kind |-> "dict",   odds |-> [home |-> OddMissing,
                                    draw |-> [kind |-> "float", val |-> 31],
                                    away |-> [kind |-> "none",  val |-> 0]]],
      [kind |-> "dict",   odds |-> [home |-> [kind |-> "str", val |-> Unparsable],
                                    draw |-> OddMissing,
                                    away |-> OddMissing]] }

MatchData(f, st, d, g, o, j) ==
    [fixture_id |-> f, league_id |-> 39, date |-> d, status |-> st,
     goals |-> g, odds_kind |-> o.kind, odds |-> o.odds, jornada |-> j]

PlainOdds == [kind |-> "absent", odds |-> OddsAbsent]

\* every shape of odds for no fixture id and for fixture 1, plain odds for
\* the other fixtures
StorePayloads ==
    { MatchData(f, "NS", isoformat(2), NoGoals, o, "J1") :
        f \in 0..1, o \in OddsSamples }
    \cup
    { MatchData(f, "NS", isoformat(2), NoGoals, PlainOdds, "J1") :
        f \in 2..MaxFixture }
    \cup
    { MatchData(f, "FT", isoformat(1), g, PlainOdds, NoJornada) :
        f \in FixtureIds, g \in {[home |-> 1, away |-> 0], [home |-> 2, away |-> 2]} }

Match_create_or_update(match_data) ==
    LET r == MatchCreateResult(match_data)
        i == FindOne(matches, "fixture_id", match_data.fixture_id)
    IN  /\ matches' = IF r = "saved"
                      THEN UpdateOneUpsert(matches, "fixture_id", MatchDoc(match_data))
                      ELSE matches
        /\ last' = [op |-> "Match.create_or_update",
                    fixture_id |-> match_data.fixture_id,
                    goals |-> match_data.goals, result |-> r,
                    odds_kind |-> match_data.odds_kind, odds |-> match_data.odds,
                    matched |-> FindOne(matches, "fixture_id", match_data.fixture_id) # 0,
                    score_before |-> ScoreOf(matches, match_data.fixture_id),
                    jornada |-> match_data.jornada,
                    active_before |-> IF i = 0 THEN TRUE ELSE matches[i].is_active,
                    jornada_before |-> IF i = 0 THEN NoJornada ELSE matches[i].jornada]
        /\ UNCHANGED <<teams, leagues, ledgerVars, apiVars>>

----------------------------------------------------------------------------
(* Match.deactivate_matches and MatchDetailView.delete *)

\* the argument fixture_ids: omitted (None) or a list of ids
Omitted == [given |-> FALSE, ids |-> {}]

Given(S) == [given |-> TRUE, ids |-> S]

DeactivateArgs == {Omitted} \cup {Given(S) : S \in SUBSET FixtureIds}

SelectAll(fixture_ids, doc) == TRUE

\* the query of deactivate_matches: {} unless fixture_ids is truthy
DeactivateQuery(fixture_ids, doc) ==
    IF fixture_ids.given /\ fixture_ids.ids # {}
    THEN doc.fixture_id \in fixture_ids.ids
    ELSE TRUE

\* a delete_many with the query of deactivate_matches
RemoveMany(coll, fixture_ids) ==
    LET Kept(doc) == ~DeactivateQuery(fixture_ids, doc)
    IN  SelectSeq(coll, Kept)

\* collection.update_many(query, {'$set': {'is_active': False, ...}})
DeactivateMany(coll, fixture_ids) ==
    [i \in 1..Len(coll) |->
        IF DeactivateQuery(fixture_ids, coll[i])
        THEN [coll[i] EXCEPT !.is_active = FALSE]
        ELSE coll[i]]

ModifiedCount(coll, fixture_ids) ==
    Cardinality({i \in 1..Len(coll) : DeactivateQuery(fixture_ids, coll[i])})

deactivate_matches(fixture_ids) ==
    /\ matches' = DeactivateMany(matches, fixture_ids)
    /\ last' = [op |-> "Match.deactivate_matches", fixture_ids |-> fixture_ids,
                result |-> ModifiedCount(matches, fixture_ids)]
    /\ UNCHANGED <<teams, leagues, ledgerVars, apiVars>>

MatchDetailDelete(fixture_id) ==
    LET found == FindOne(matches, "fixture_id", fixture_id) # 0
        count == ModifiedCount(matches, Given({fixture_id}))
    IN  /\ matches' = IF found THEN DeactivateMany(matches, Given({fixture_id}))
                      ELSE matches
        /\ last' = [op |-> "MatchDetailView.delete", fixture_id |-> fixture_id,
                    status |-> IF ~found THEN 404
                               ELSE IF count > 0 THEN 200 ELSE 500]
        /\ UNCHANGED <<teams, leagues, ledgerVars, apiVars>>

----------------------------------------------------------------------------
(* APIFootballClient, matches/api_client.py *)

\* a Python value handed back by the client: None, a list or a dict
PyNone == [kind |-> "none", items |-> <<>>, errors |-> FALSE]

PyList(s) == [kind |-> "list", items |-> s, errors |-> FALSE]

Falsy(v) == v.kind = "none" \/ v.items = <<>>

\* what the provider does with one GET: the request fails (connection error
\* or HTTP error status, both a RequestException), or it answers a JSON body
\* {"errors": ..., "response": [...]}
Transport == [kind |-> "transport", errors |-> FALSE, response |-> <<>>]

ProviderError == [kind |-> "json", errors |-> TRUE, response |-> <<>>]

Ok(items) == [kind |-> "json", errors |-> FALSE, response |-> items]

\* the three failure-or-empty cases of the client's contract, and "items"
CaseOf(answer) ==
    IF answer.kind = "transport" THEN "transport"
    ELSE IF answer.errors THEN "provider_error"
    ELSE IF answer.response = <<>> THEN "empty"
    ELSE "items"

\* APIFootballClient._make_request
make_request(answer) ==
    IF answer.kind = "transport" THEN PyNone
    ELSE IF answer.errors THEN PyNone
    ELSE PyList(answer.response)

get_leagues(answer) == make_request(answer)

get_teams(league_id, season, answer) == make_request(answer)

get_fixtures(answer) == make_request(answer)

get_fixture_by_id(fixture_id, answer) == make_request(answer)

get_odds(fixture_id, answer) == make_request(answer)

\* the loop of get_fixtures_with_odds over the fixtures; odds_answers[id] is
\* the provider's answer to the odds lookup of fixture id
RECURSIVE AttachOdds(_, _)
AttachOdds(fixtures, odds_answers) ==
    IF fixtures = <<>> THEN <<>>
    ELSE LET fixture == Head(fixtures)
             rest    == AttachOdds(Tail(fixtures), odds_answers)
         IN  IF fixture.fixture_id = 0 THEN rest
             ELSE LET odds == get_odds(fixture.fixture_id,
                                       odds_answers[fixture.fixture_id])
                  IN  IF Falsy(odds) THEN <<fixture>> \o rest
                      ELSE <<[fixture EXCEPT !.odds_kind = "list"]>> \o rest

get_fixtures_with_odds(answer, odds_answers) ==
    LET fixtures == get_fixtures(answer)
    IN  IF Falsy(fixtures) THEN PyList(<<>>)
        ELSE PyList(AttachOdds(fixtures.items, odds_answers))

\* the keyword parameters the client's methods declare
GetFixturesParams == {"league_id", "season", "team_id", "date"}

GetFixturesWithOddsParams == {"league_id", "date"}

\* a Python call raises TypeError for a keyword the function does not declare
CallAccepted(kwargs, params) == kwargs \subseteq params

PlainFixture(f) == MatchData(f, "NS", isoformat(2), NoGoals, PlainOdds, NoJornada)

FixtureLists == {<<PlainFixture(1)>>, <<PlainFixture(0), PlainFixture(2)>>}

FixtureAnswers == {Transport, ProviderError, Ok(<<>>)} \cup {Ok(l) : l \in FixtureLists}

OddsAnswers == {Transport, Ok(<<>>), Ok(<<"odds">>)}

SimpleOps == {"get_leagues", "get_teams", "get_fixtures", "get_fixture_by_id",
              "get_odds"}

ApiCall(op, answer) ==
    /\ api' = [op |-> op, answer_case |-> CaseOf(answer),
               result |-> make_request(answer)]
    /\ api_prev' = api
    /\ last' = [op |-> op]
    /\ UNCHANGED <<storeVars, ledgerVars>>

ApiFixturesWithOdds(answer, odds_answers) ==
    /\ api' = [op |-> "get_fixtures_with_odds", answer_case |-> CaseOf(answer),
               result |-> get_fixtures_with_odds(answer, odds_answers)]
    /\ api_prev' = api
    /\ last' = [op |-> "get_fixtures_with_odds"]
    /\ UNCHANGED <<storeVars, ledgerVars>>

----------------------------------------------------------------------------
(* Team.create_or_update and TeamListView.post *)

TeamData(id, name, founded) ==
    [team_id |-> id, name |-> name, logo |-> name, country |-> "England",
     founded |-> founded]

TeamSamples == {TeamData(33, "Manchester United", 1878),
                TeamData(33, "Man United", 1878),
                TeamData(40, "Liverpool", 1892),
                TeamData(0, "Nameless", Null)}

TeamDoc(team_data) ==
    [team_id |-> team_data.team_id, name |-> team_data.name,
     logo |-> team_data.logo, country |-> team_data.country,
     founded |-> team_data.founded]

\* Team.create_or_update on a collection value: the collection afterwards
TeamUpsert(coll, team_data) ==
    IF team_data.team_id = 0 THEN coll
    ELSE UpdateOneUpsert(coll, "team_id", TeamDoc(team_data))

Team_create_or_update(team_data) ==
    /\ teams' = TeamUpsert(teams, team_data)
    /\ last' = [op |-> "Team.create_or_update", team_data |-> team_data,
                result |-> IF team_data.team_id = 0 THEN "none" ELSE "saved"]
    /\ UNCHANGED <<matches, leagues, ledgerVars, apiVars>>

\* the loop of TeamListView.post: <<collection afterwards, synced count>>
RECURSIVE SyncTeams(_, _)
SyncTeams(coll, teams_data) ==
    IF teams_data = <<>> THEN [coll |-> coll, count |-> 0]
    ELSE LET team_data == Head(teams_data)
             rest == SyncTeams(TeamUpsert(coll, team_data), Tail(teams_data))
         IN  [coll |-> rest.coll,
              count |-> rest.count + (IF team_data.team_id = 0 THEN 0 ELSE 1)]

TeamLists == {<<>>,
              <<TeamData(33, "Manchester United", 1878), TeamData(40, "Liverpool", 1892)>>,
              <<TeamData(40, "Liverpool", 1892)>>,
              <<TeamData(0, "Nameless", Null), TeamData(40, "Liverpool", 1892)>>}

TeamAnswers == {Transport, ProviderError} \cup {Ok(l) : l \in TeamLists}

\* TeamListView.post.  teams_response is what get_teams returned: None or a
\* list.  "'errors' in None" raises TypeError, and a list has no .get, so
\* line 145 raises AttributeError; neither is caught, and the framework
\* answers 500.
TeamListPost(league_id, season, answer) ==
    LET teams_response == get_teams(league_id, season, answer)
        is_dict        == teams_response.kind = "dict"
        synced         == SyncTeams(teams, teams_response.items)
        outcome ==
            IF league_id = 0 THEN [status |-> 400, exception |-> "", count |-> 0]
            ELSE IF teams_response.kind = "none"
                 THEN [status |-> 500, exception |-> "TypeError", count |-> 0]
            ELSE IF ~is_dict
                 THEN [status |-> 500, exception |-> "AttributeError", count |-> 0]
            ELSE IF teams_response.errors
                 THEN [status |-> 500, exception |-> "", count |-> 0]
            ELSE [status |-> 200, exception |-> "", count |-> synced.count]
    IN  /\ teams' = IF outcome.status = 200 THEN synced.coll ELSE teams
        /\ last' = [op |-> "TeamListView.post", league_id |-> league_id,
                    season |-> season, answer |-> answer,
                    requested |-> league_id # 0,
                    status |-> outcome.status, exception |-> outcome.exception,
                    count |-> outcome.count]
        /\ UNCHANGED <<matches, leagues, ledgerVars, apiVars>>

----------------------------------------------------------------------------
(* League.create_or_update and LeagueListView.post *)

\* one item of the provider's leagues list; an item that is not a dict has
\* kind "str"
LeagueData(kind, id, name) == [kind |-> kind, league_id |-> id, name |-> name]

LeagueDoc(league, season) ==
    [league_id |-> league.league_id, name |-> league.name, season |-> season,
     is_active |-> TRUE]

\* what one turn of the loop of LeagueListView.post does with league_data:
\* "raised" (the transformation raises, the handler's inner except catches
\* it), "none" (no id, or update_one raised inside create_or_update, which
\* catches it and returns None) or "saved"
LeagueItemResult(league_data, write_fails) ==
    IF league_data.kind # "dict" THEN "raised"
    ELSE IF league_data.league_id = 0 THEN "none"
    ELSE IF league_data.league_id \in write_fails THEN "none"
    ELSE "saved"

\* the loop of LeagueListView.post: <<collection afterwards, synced count>>
RECURSIVE SyncLeagues(_, _, _, _)
SyncLeagues(coll, leagues_response, season, write_fails) ==
    IF leagues_response = <<>> THEN [coll |-> coll, count |-> 0]
    ELSE LET league_data == Head(leagues_response)
             saved == LeagueItemResult(league_data, write_fails) = "saved"
             next  == IF saved
                      THEN UpdateOneUpsert(coll, "league_id",
                                           LeagueDoc(league_data, season))
                      ELSE coll
             rest  == SyncLeagues(next, Tail(leagues_response), season, write_fails)
         IN  [coll |-> rest.coll, count |-> rest.count + (IF saved THEN 1 ELSE 0)]

LeagueIds == {39, 140}

LeagueLists ==
    { <<>>,
      <<LeagueData("dict", 39, "Premier League")>>,
      <<LeagueData("dict", 39, "Premier League"), LeagueData("dict", 140, "La Liga")>>,
      <<LeagueData("str", 0, ""), LeagueData("dict", 140, "La Liga")>>,
      <<LeagueData("dict", 0, "Nameless"), LeagueData("dict", 39, "EPL")>> }

LeagueAnswers == {Transport, ProviderError} \cup {Ok(l) : l \in LeagueLists}

\* LeagueListView.post.  write_fails: the league ids whose update_one raises.
LeagueListPost(season, answer, write_fails) ==
    LET leagues_response == get_leagues(answer)
        failed == leagues_response.kind = "none"
        synced == SyncLeagues(leagues, leagues_response.items, season, write_fails)
    IN  /\ leagues' = IF failed THEN leagues ELSE synced.coll
        /\ last' = [op |-> "LeagueListView.post", answer |-> answer,
                    write_fails |-> write_fails, requested |-> TRUE,
                    status |-> IF failed THEN 503 ELSE 200, exception |-> "",
                    count |-> IF failed THEN 0 ELSE synced.count]
        /\ UNCHANGED <<matches, teams, ledgerVars, apiVars>>

----------------------------------------------------------------------------
(* JornadaManagementView.post: the odds transformation and the handler *)

Bet(name, values) == [name |-> name, values |-> values]

Outcome(value, odd) == [value |-> value, odd |-> odd]

OddsItem(bets) == [bookmakers |-> <<[bets |-> bets]>>]

\* the loop over bets['values']: each named outcome sets its odd
RECURSIVE ApplyValues(_, _)
ApplyValues(odds, values) ==
    IF values = <<>> THEN odds
    ELSE LET value == Head(values)
             next  == IF value.value = "Home" THEN [odds EXCEPT !.home = value.odd]
                      ELSE IF value.value = "Draw" THEN [odds EXCEPT !.draw = value.odd]
                      ELSE IF value.value = "Away" THEN [odds EXCEPT !.away = value.odd]
                      ELSE odds
         IN  ApplyValues(next, Tail(values))

\* the loop over odds_data: the first item whose first bookmaker's first bet
\* is "Match Winner" decides, and ends the loop
RECURSIVE OddsFromData(_, _)
OddsFromData(odds_data, odds) ==
    IF odds_data = <<>> THEN odds
    ELSE LET odds_item == Head(odds_data)
             bookmaker == IF odds_item.bookmakers # <<>>
                          THEN odds_item.bookmakers[1] ELSE [bets |-> <<>>]
             bets      == IF bookmaker.bets # <<>>
                          THEN bookmaker.bets[1] ELSE Bet("", <<>>)
         IN  IF bets.name = "Match Winner" THEN ApplyValues(odds, bets.values)
             ELSE OddsFromData(Tail(odds_data), odds)

\* fixture['odds'] = odds: a dict of floats
WithOdds(fixture, odds) ==
    [fixture EXCEPT !.odds_kind = "dict",
                    !.odds = [k \in OddKeys |-> [kind |-> "float", val |-> odds[k]]]]

\* the loop of JornadaManagementView.post over the fixtures: the collection
\* afterwards.  odds_data[id] is the provider's odds payload of fixture id.
RECURSIVE SyncJornada(_, _, _, _)
SyncJornada(coll, fixtures, jornada_name, odds_data) ==
    IF fixtures = <<>> THEN coll
    ELSE LET fixture == [Head(fixtures) EXCEPT !.jornada = jornada_name]
             data    == odds_data[fixture.fixture_id]
             with    == IF data # <<>>
                        THEN WithOdds(fixture, OddsFromData(data, DefaultOdds))
                        ELSE fixture
             next    == IF MatchCreateResult(with) = "saved"
                        THEN UpdateOneUpsert(coll, "fixture_id", MatchDoc(with))
                        ELSE coll
         IN  SyncJornada(next, Tail(fixtures), jornada_name, odds_data)

OddsDataSamples ==
    { <<>>,
      <<OddsItem(<<Bet("Match Winner", <<Outcome("Draw", 33)>>)>>)>>,
      <<OddsItem(<<Bet("Match Winner", <<Outcome("Home", 17), Outcome("Draw", 36),
                                         Outcome("Away", 52)>>)>>)>>,
      <<OddsItem(<<Bet("Goals Over/Under", <<Outcome("Over 2.5", 19)>>),
                   Bet("Match Winner", <<Outcome("Home", 17)>>)>>)>>,
      <<[bookmakers |-> <<>>],
        OddsItem(<<Bet("Match Winner", <<Outcome("Away", 45)>>)>>)>> }

JornadaRequests ==
    [league_id : {0, 39}, start_date : {"", "2024-05-01"},
     end_date : {"2024-05-07"}, jornada_name : {"", "J1"}]

\* JornadaManagementView.post.  The call api_client.get_fixtures(league_id=,
\* from_date=, to_date=) names keywords get_fixtures does not declare, so it
\* raises TypeError; nothing catches it and the framework answers 500.
JornadaPost(request, answer, odds_data) ==
    LET missing  == \/ request.league_id = 0 \/ request.start_date = ""
                    \/ request.end_date = "" \/ request.jornada_name = ""
        accepted == CallAccepted({"league_id", "from_date", "to_date"},
                                 GetFixturesParams)
        fixtures_response == get_fixtures(answer)
        is_dict  == fixtures_response.kind = "dict"
        outcome ==
            IF missing THEN [status |-> 400, exception |-> ""]
            ELSE IF ~accepted THEN [status |-> 500, exception |-> "TypeError"]
            ELSE IF fixtures_response.kind = "none"
                 THEN [status |-> 500, exception |-> "TypeError"]
            ELSE IF ~is_dict THEN [status |-> 500, exception |-> "AttributeError"]
            ELSE IF fixtures_response.errors \/ fixtures_response.items = <<>>
                 THEN [status |-> 500, exception |-> ""]
            ELSE [status |-> 200, exception |-> ""]
    IN  /\ matches' = IF outcome.status = 200
                      THEN SyncJornada(matches, fixtures_response.items,
                                       request.jornada_name, odds_data)
                      ELSE matches
        /\ last' = [op |-> "JornadaManagementView.post", request |-> request,
                    answer |-> answer, odds_data |-> odds_data,
                    requested |-> ~missing /\ accepted,
                    status |-> outcome.status, exception |-> outcome.exception]
        /\ UNCHANGED <<teams, leagues, ledgerVars, apiVars>>

----------------------------------------------------------------------------
(* MatchListView.post *)

\* the loop of MatchListView.post: the collection afterwards, the synced
\* count, and whether Match.create_or_update raised (which ends the loop
\* and the request; what was written before stays written)
RECURSIVE SyncMatches(_, _)
SyncMatches(coll, matches_data) ==
    IF matches_data = <<>> THEN [coll |-> coll, count |-> 0, raised |-> FALSE]
    ELSE LET match_data == Head(matches_data)
             r == MatchCreateResult(match_data)
         IN  IF r = "raised" THEN [coll |-> coll, count |-> 0, raised |-> TRUE]
             ELSE LET next == IF r = "saved"
                              THEN UpdateOneUpsert(coll, "fixture_id",
                                                   MatchDoc(match_data))
                              ELSE coll
                      rest == SyncMatches(next, Tail(matches_data))
                  IN  [coll |-> rest.coll, raised |-> rest.raised,
                       count |-> rest.count + (IF r = "saved" THEN 1 ELSE 0)]

\* int(request.data.get('days_range', 7)): the values of days_range tried
\* here are the strings "7" (also the default) and "soon"
IntRaises(value) == value \notin {"7"}

\* MatchListView.post.  days_range is converted before league_id is looked
\* at.  The call api_client.get_fixtures_with_odds(league_id=,
\* date=, days_range=) names a keyword the method does not declare, so it
\* raises TypeError before any request is sent; nothing catches it and the
\* framework answers 500.
MatchListPost(league_id, days_range, answer, odds_answers) ==
    LET accepted == CallAccepted({"league_id", "date", "days_range"},
                                 GetFixturesWithOddsParams)
        matches_data == get_fixtures_with_odds(answer, odds_answers)
        synced  == SyncMatches(matches, matches_data.items)
        outcome ==
            IF IntRaises(days_range)
            THEN [status |-> 500, exception |-> "ValueError"]
            ELSE IF league_id = 0 THEN [status |-> 400, exception |-> ""]
            ELSE IF ~accepted THEN [status |-> 500, exception |-> "TypeError"]
            ELSE IF Falsy(matches_data) THEN [status |-> 404, exception |-> ""]
            ELSE IF synced.raised
                 THEN [status |-> 500, exception |-> "InvalidOperation"]
            ELSE [status |-> 200, exception |-> ""]
        called  == ~IntRaises(days_range) /\ league_id # 0
        reached == called /\ accepted /\ ~Falsy(matches_data)
    IN  /\ matches' = IF reached THEN synced.coll ELSE matches
        /\ last' = [op |-> "MatchListView.post", league_id |-> league_id,
                    days_range |-> days_range, answer |-> answer,
                    requested |-> called /\ accepted,
                    status |-> outcome.status, exception |-> outcome.exception,
                    count |-> IF outcome.status = 200 THEN synced.count ELSE 0]
        /\ UNCHANGED <<teams, leagues, ledgerVars, apiVars>>

----------------------------------------------------------------------------
(* The coin ledger: users/models.py, users/views.py, assign_coins.py,      *)
(* AssignCoinsView                                                         *)

Usernames == {"ana", "bob", "eve"}

\* the order in which a query over the users table yields its rows
UserOrder == <<"ana", "bob", "eve">>

Procs == {1, 2}

DefaultAmount == 100      \* assign_initial_coins(amount=Decimal('100.00'))

\* --amount (default 100.0) and coins_amount (default 100.00) as tried here
CmdAmounts == {DefaultAmount}

PostAmounts == {50}

\* a new request or run takes the first free slot
FreeSlot(p) ==
    /\ procs[p].kind = "idle"
    /\ \A q \in Procs : q < p => procs[q].kind # "idle"

StartedStatuses == {"1H", "2H", "HT", "FT", "AET", "PEN"}

AllStatuses == StartedStatuses \cup {"NS"}

JornadaNames == {"current", "J1", "J9"}

Idle == [kind |-> "idle", force |-> FALSE, amount |-> 0, jornada |-> "",
         match_dates |-> {}, todo |-> <<>>]

\* the row a query or authenticate() loads into a model instance
Instance(username) ==
    [username |-> username,
     virtual_coins |-> users[username].virtual_coins,
     last_coins_assignment |-> users[username].last_coins_assignment]

RECURSIVE SelectActive(_)
SelectActive(order) ==
    IF order = <<>> THEN <<>>
    ELSE IF users[Head(order)].is_active
         THEN <<Instance(Head(order))>> \o SelectActive(Tail(order))
         ELSE SelectActive(Tail(order))

\* User.objects.filter(is_active=True), evaluated when the loop starts
ActiveUsers == SelectActive(UserOrder)

\* Match.get_active_jornadas: the distinct jornada labels of active matches
get_active_jornadas ==
    {matches[i].jornada : i \in {k \in 1..Len(matches) : matches[k].is_active}}

JornadaDocs(jornada_name) ==
    {matches[i] : i \in {k \in 1..Len(matches) : matches[k].jornada = jornada_name}}

\* matches_collection.find({'jornada': jornada_name, 'is_active': True})
JornadaMatches(jornada_name) ==
    {matches[i] : i \in {k \in 1..Len(matches) :
                            /\ matches[k].jornada = jornada_name
                            /\ matches[k].is_active}}

AnyNotStarted(ms) == \E m \in ms : m.status \notin StartedStatuses

\* all(match.get('status') not in [...] for match in matches)
AllNotStarted(ms) == \A m \in ms : m.status \notin StartedStatuses

\* the guard of line 57: the batch is refused
\* the guard with --force left out of it
RefusedEvenForced(ms, force) == ~AllNotStarted(ms)

Refused(ms, force) == ~AllNotStarted(ms) /\ ~force

MatchDates(ms) == {m.date : m \in {x \in ms : x.date # NoDate}}

NeverSkip(user, match_dates, force) == FALSE

\* lines 72-83: the user already has coins for this jornada
AlreadyAssigned(user, match_dates, force) ==
    /\ ~force
    /\ user.last_coins_assignment # Null
    /\ match_dates # {}
    /\ StrGT(isoformat(user.last_coins_assignment), StrMin(match_dates))

\* the value the instance would write without an F() expression
StaleIncrement(row, user, amount) == user.virtual_coins + amount

\* user.virtual_coins = F('virtual_coins') + coins_amount; save(): the
\* UPDATE computes the new balance from the row, not from the instance
FIncrement(row, user, amount) == row.virtual_coins + amount

\* User.sync_to_mongodb: $set with upsert, under try/except.  float() of an
\* instance field that still holds an F() expression raises TypeError, which
\* the except clause swallows like a store failure.
sync_to_mongodb(doc, row, holds_expression, mongo_ok) ==
    IF holds_expression \/ ~mongo_ok THEN doc
    ELSE [exists |-> TRUE, virtual_coins |-> row.virtual_coins,
          last_coins_assignment |-> row.last_coins_assignment,
          is_active |-> row.is_active]

\* a failed mirror write leaves sync_to_mongodb as an exception
SyncPropagates(holds_expression, mongo_ok) == holds_expression \/ ~mongo_ok

\* sync_to_mongodb never raises: its body is one try block whose except
\* clause catches Exception and returns False
SyncRaises(holds_expression, mongo_ok) == FALSE

\* the mirror document was written
Mirrored(holds_expression, mongo_ok) == ~holds_expression /\ mongo_ok

Finish(p) == [procs EXCEPT ![p] = Idle]

Advance(p) ==
    IF Len(procs[p].todo) > 1
    THEN [procs EXCEPT ![p].todo = Tail(procs[p].todo)]
    ELSE Finish(p)

Tick ==
    /\ now < MaxTime
    /\ now' = now + 1
    /\ last' = [op |-> "tick"]
    /\ UNCHANGED <<users, mongo_users, procs, credited, grants, started_ops,
                   storeVars, apiVars>>

\* assign_coins.py, lines 34-65: resolve the jornada, load its matches, apply
\* the guard, query the users
CmdStart(p, jornada_arg, amount, force) ==
    /\ FreeSlot(p)
    /\ started_ops < MaxOps
    /\ started_ops' = started_ops + 1
    /\ \E jornada_name \in IF jornada_arg # "" THEN {jornada_arg}
                           ELSE IF get_active_jornadas = {} THEN {""}
                           ELSE get_active_jornadas :
          LET ms     == JornadaMatches(jornada_name)
              result == IF jornada_name = "" THEN "no_jornada"
                        ELSE IF ms = {} THEN "no_matches"
                        ELSE IF Refused(ms, force) THEN "refused"
                        ELSE IF ActiveUsers = <<>> THEN "done"
                        ELSE "running"
          IN  /\ procs' = IF result = "running"
                          THEN [procs EXCEPT ![p] =
                                   [kind |-> "cmd", force |-> force,
                                    amount |-> amount, jornada |-> jornada_name,
                                    match_dates |-> MatchDates(ms),
                                    todo |-> ActiveUsers]]
                          ELSE procs
              /\ last' = [op |-> "assign_coins", p |-> p, force |-> force,
                          jornada_arg |-> jornada_arg,
                          jornada |-> jornada_name, result |-> result]
    /\ UNCHANGED <<users, mongo_users, now, credited, grants, storeVars, apiVars>>

\* assign_coins.py, lines 70-99: one turn of the loop over the users
CmdUser(p, mongo_ok) ==
    /\ procs[p].kind = "cmd"
    /\ LET pr   == procs[p]
           user == Head(pr.todo)
           u    == user.username
           skip == AlreadyAssigned(user, pr.match_dates, pr.force)
           row  == [users[u] EXCEPT
                      !.virtual_coins = FIncrement(users[u], user, pr.amount),
                      !.last_coins_assignment = now]
       IN  /\ users' = IF skip THEN users ELSE [users EXCEPT ![u] = row]
           /\ mongo_users' =
                 IF skip THEN mongo_users
                 ELSE [mongo_users EXCEPT
                         ![u] = sync_to_mongodb(mongo_users[u], row, FALSE, mongo_ok)]
           /\ credited' = IF skip THEN credited
                          ELSE [credited EXCEPT ![u] = @ + pr.amount]
           /\ grants' = IF skip \/ pr.force THEN grants
                        ELSE [grants EXCEPT ![<<u, pr.jornada>>] = @ + 1]
           /\ last' = [op |-> "assign_coins.user", p |-> p, username |-> u,
                       force |-> pr.force, skipped |-> skip,
                       mirrored |-> ~skip /\ Mirrored(FALSE, mongo_ok)]
           /\ procs' = IF ~skip /\ SyncRaises(FALSE, mongo_ok)
                       THEN Finish(p) ELSE Advance(p)
    /\ UNCHANGED <<now, started_ops, storeVars, apiVars>>

\* every row of the users table, active or not
RECURSIVE SelectEvery(_)
SelectEvery(order) ==
    IF order = <<>> THEN <<>>
    ELSE <<Instance(Head(order))>> \o SelectEvery(Tail(order))

\* users = User.objects.filter(is_active=True) of AssignCoinsView.post
PostUsers(order) == SelectActive(order)

\* AssignCoinsView.post, lines 498-505.  jornada_name is only quoted in the
\* message of the response.
PostStart(p, jornada_name, amount) ==
    /\ FreeSlot(p)
    /\ started_ops < MaxOps
    /\ started_ops' = started_ops + 1
    /\ procs' = IF PostUsers(UserOrder) = <<>> THEN procs
                ELSE [procs EXCEPT ![p] =
                         [kind |-> "post", force |-> TRUE, amount |-> amount,
                          jornada |-> jornada_name, match_dates |-> {},
                          todo |-> PostUsers(UserOrder)]]
    /\ last' = [op |-> "AssignCoinsView.post", p |-> p]
    /\ UNCHANGED <<users, mongo_users, now, credited, grants, storeVars, apiVars>>

\* AssignCoinsView.post, lines 507-512: one turn of the loop over the users.
\* The instance is not refreshed, so its virtual_coins is still the F()
\* expression when sync_to_mongodb reads it.
PostUser(p, mongo_ok) ==
    /\ procs[p].kind = "post"
    /\ LET pr   == procs[p]
           user == Head(pr.todo)
           u    == user.username
           row  == [users[u] EXCEPT
                      !.virtual_coins = FIncrement(users[u], user, pr.amount),
                      !.last_coins_assignment = now]
       IN  /\ users' = [users EXCEPT ![u] = row]
           /\ mongo_users' = [mongo_users EXCEPT
                                ![u] = sync_to_mongodb(mongo_users[u], row, TRUE, mongo_ok)]
           /\ credited' = [credited EXCEPT ![u] = @ + pr.amount]
           /\ last' = [op |-> "AssignCoinsView.post.user", p |-> p, username |-> u,
                       jornada |-> pr.jornada, skipped |-> FALSE, mirrored |-> Mirrored(TRUE, mongo_ok)]
           /\ procs' = IF SyncRaises(TRUE, mongo_ok) THEN Finish(p) ELSE Advance(p)
    /\ UNCHANGED <<now, grants, started_ops, storeVars, apiVars>>

\* timedelta.days: whole days, rounded down
Days(delta) == delta \div DayTicks

MoreThanADay(user) ==
    \/ user.last_coins_assignment = Null
    \/ Days(now - user.last_coins_assignment) > 1

\* LoginView.assign_coins_if_needed, the condition of lines 79-80
NeedsCoins(user) ==
    \/ user.last_coins_assignment = Null
    \/ Days(now - user.last_coins_assignment) >= 1

\* User.assign_initial_coins: self.virtual_coins += amount on the instance
InstanceIncrement(row, user, amount) == user.virtual_coins + amount

\* LoginView.post, lines 44-58: authenticate() loads the user's row
LoginAuth(p, username, authenticated) ==
    /\ FreeSlot(p)
    /\ started_ops < MaxOps
    /\ started_ops' = started_ops + 1
    /\ procs' = IF authenticated
                THEN [procs EXCEPT ![p] =
                         [kind |-> "login", force |-> FALSE,
                          amount |-> DefaultAmount, jornada |-> "",
                          match_dates |-> {}, todo |-> <<Instance(username)>>]]
                ELSE procs
    /\ last' = [op |-> "LoginView.post", p |-> p, username |-> username,
                status |-> IF authenticated THEN 0 ELSE 401]
    /\ UNCHANGED <<users, mongo_users, now, credited, grants, storeVars, apiVars>>

\* LoginView.post, lines 61-69: assign_coins_if_needed, assign_initial_coins
LoginAssign(p, mongo_ok) ==
    /\ procs[p].kind = "login"
    /\ LET pr     == procs[p]
           user   == Head(pr.todo)
           u      == user.username
           needed == NeedsCoins(user)
           row    == [users[u] EXCEPT
                        !.virtual_coins = InstanceIncrement(users[u], user, pr.amount),
                        !.last_coins_assignment = now]
       IN  /\ users' = IF needed THEN [users EXCEPT ![u] = row] ELSE users
           /\ mongo_users' =
                 IF needed
                 THEN [mongo_users EXCEPT
                         ![u] = sync_to_mongodb(mongo_users[u], row, FALSE, mongo_ok)]
                 ELSE mongo_users
           /\ credited' = IF needed THEN [credited EXCEPT ![u] = @ + pr.amount]
                          ELSE credited
           /\ last' = [op |-> "LoginView.assign_coins_if_needed", p |-> p,
                       username |-> u, assigned |-> needed, status |-> 200]
    /\ procs' = Finish(p)
    /\ UNCHANGED <<now, grants, started_ops, storeVars, apiVars>>

----------------------------------------------------------------------------
(* The read path and the management handlers of matches/views.py *)

\* Match.get_active_matches(jornada): query {'is_active': True}, plus the
\* jornada when one is given
get_active_matches(jornada) ==
    LET Test(doc) == doc.is_active /\ (jornada # "" => doc.jornada = jornada)
    IN  SelectSeq(matches, Test)

\* Match.get_matches_by_league(league_id, jornada): query {'league_id': ...},
\* plus the jornada when one is given; the active flag is not part of it
get_matches_by_league(league_id, jornada) ==
    LET Test(doc) == /\ doc.league_id = league_id
                     /\ (jornada # "" => doc.jornada = jornada)
    IN  SelectSeq(matches, Test)

\* request.query_params.get('is_active', 'true').lower() == 'true'; the
\* parameter omitted is ""
IsActiveParam(param) == IF param = "" THEN TRUE ELSE param = "true"

\* the matches MatchListView.get answers with; league_id 0 and jornada ""
\* stand for the parameter omitted
MatchListResult(league_id, jornada, is_active_param) ==
    LET is_active == IsActiveParam(is_active_param)
        Test(doc) == doc.jornada = jornada /\ doc.is_active = is_active
    IN  IF league_id # 0 THEN get_matches_by_league(league_id, jornada)
        ELSE IF jornada # "" THEN SelectSeq(matches, Test)
        ELSE get_active_matches(jornada)

MatchListGet(league_id, jornada, is_active_param) ==
    /\ last' = [op |-> "MatchListView.get", league_id |-> league_id,
                jornada |-> jornada, is_active |-> is_active_param,
                matches |-> MatchListResult(league_id, jornada, is_active_param)]
    /\ UNCHANGED <<storeVars, ledgerVars, apiVars>>

\* JornadaManagementView.get
JornadaGet ==
    /\ last' = [op |-> "JornadaManagementView.get",
                active_jornadas |-> get_active_jornadas]
    /\ UNCHANGED <<storeVars, ledgerVars, apiVars>>

\* a query that selects no document
QueryNothing(jornada_name, doc) == FALSE

\* the query {'jornada': jornada_name} of JornadaManagementView.put/delete
JornadaQuery(jornada_name, doc) == doc.jornada = jornada_name

\* update_many(query, {'$set': {..., 'is_active': value}}); is_active is
\* "none" when the update sets no is_active
JornadaUpdateMany(coll, jornada_name, is_active) ==
    [i \in 1..Len(coll) |->
        IF JornadaQuery(jornada_name, coll[i]) /\ is_active # "none"
        THEN [coll[i] EXCEPT !.is_active = (is_active = "true")]
        ELSE coll[i]]

JornadaModifiedCount(coll, jornada_name) ==
    Cardinality({i \in 1..Len(coll) : JornadaQuery(jornada_name, coll[i])})

\* JornadaManagementView.put; is_active is "none" when the body has none
JornadaPut(jornada_name, is_active) ==
    LET count == JornadaModifiedCount(matches, jornada_name)
    IN  /\ matches' = IF jornada_name = "" THEN matches
                      ELSE JornadaUpdateMany(matches, jornada_name, is_active)
        /\ last' = [op |-> "JornadaManagementView.put",
                    jornada_name |-> jornada_name, is_active |-> is_active,
                    status |-> IF jornada_name = "" THEN 400
                               ELSE IF count > 0 THEN 200 ELSE 404]
        /\ UNCHANGED <<teams, leagues, ledgerVars, apiVars>>

\* JornadaManagementView.delete
JornadaDelete(jornada_name) ==
    LET count == JornadaModifiedCount(matches, jornada_name)
    IN  /\ matches' = IF jornada_name = "" THEN matches
                      ELSE JornadaUpdateMany(matches, jornada_name, "false")
        /\ last' = [op |-> "JornadaManagementView.delete",
                    jornada_name |-> jornada_name,
                    status |-> IF jornada_name = "" THEN 400
                               ELSE IF count > 0 THEN 200 ELSE 404]
        /\ UNCHANGED <<teams, leagues, ledgerVars, apiVars>>

\* Match.update_match_status: $set of status, and of score when one is given
update_match_status(coll, fixture_id, status, score) ==
    LET i == FindOne(coll, "fixture_id", fixture_id)
    IN  IF i = 0 THEN coll
        ELSE [coll EXCEPT ![i] =
                 IF score = NoGoals THEN [@ EXCEPT !.status = status]
                 ELSE [@ EXCEPT !.status = status, !.score = score]]

\* MatchDetailView.put; status_value "" is the body without 'status'
MatchDetailPut(fixture_id, status_value, score) ==
    LET found == FindOne(matches, "fixture_id", fixture_id) # 0
    IN  /\ matches' = IF found /\ status_value # ""
                      THEN update_match_status(matches, fixture_id, status_value, score)
                      ELSE matches
        /\ last' = [op |-> "MatchDetailView.put", fixture_id |-> fixture_id,
                    status |-> IF ~found THEN 404
                               ELSE IF status_value = "" THEN 400 ELSE 200]
        /\ UNCHANGED <<teams, leagues, ledgerVars, apiVars>>

----------------------------------------------------------------------------
(* Initial states and specifications *)

NoUserDoc == [exists |-> FALSE, virtual_coins |-> 0,
              last_coins_assignment |-> Null, is_active |-> FALSE]

InitLedgerVars ==
    /\ users = [u \in Usernames |->
                  [virtual_coins |-> 0, last_coins_assignment |-> Null,
                   is_active |-> u # "eve"]]
    /\ mongo_users = [u \in Usernames |-> NoUserDoc]
    /\ now = 0
    /\ procs = [p \in Procs |-> Idle]
    /\ credited = [u \in Usernames |-> 0]
    /\ grants = [k \in Usernames \X JornadaNames |-> 0]
    /\ started_ops = 0

NoCall == [op |-> "", answer_case |-> "", result |-> PyNone]

InitApiVars ==
    /\ api = NoCall
    /\ api_prev = NoCall

Init ==
    /\ matches = <<>>
    /\ teams = <<>>
    /\ leagues = <<>>
    /\ InitLedgerVars
    /\ InitApiVars
    /\ last = [op |-> "init"]

\* the matches collection and the operations that write it
NextStore ==
    \/ \E match_data \in StorePayloads : Match_create_or_update(match_data)
    \/ \E fixture_ids \in DeactivateArgs : deactivate_matches(fixture_ids)
    \/ \E fixture_id \in 0..MaxFixture : MatchDetailDelete(fixture_id)

Spec == Init /\ [][NextStore]_vars

\* the sync handlers
NextSync ==
    \/ \E team_data \in TeamSamples : Team_create_or_update(team_data)
    \/ \E league_id \in {0, 39}, answer \in TeamAnswers :
          TeamListPost(league_id, 2023, answer)
    \/ \E request \in JornadaRequests, answer \in FixtureAnswers,
          data \in OddsDataSamples :
          JornadaPost(request, answer, [f \in 0..MaxFixture |-> data])
    \/ \E answer \in LeagueAnswers, write_fails \in SUBSET LeagueIds :
          LeagueListPost(2023, answer, write_fails)
    \/ \E league_id \in {0, 39}, days_range \in {"7", "soon"},
          answer \in FixtureAnswers, odds \in OddsAnswers :
          MatchListPost(league_id, days_range, answer, [f \in 0..MaxFixture |-> odds])

SpecSync == Init /\ [][NextSync]_vars

\* the API client alone
NextApi ==
    \/ \E op \in SimpleOps, answer \in FixtureAnswers : ApiCall(op, answer)
    \/ \E answer \in FixtureAnswers, odds \in OddsAnswers :
          ApiFixturesWithOdds(answer, [f \in 0..MaxFixture |-> odds])

SpecApi == Init /\ [][NextApi]_vars

\* fixture 1 belongs to league 39, every other fixture to league 140
LeagueOf(fixture_id) == IF fixture_id = 1 THEN 39 ELSE 140

AdminPayloads ==
    { [MatchData(f, "NS", isoformat(2), NoGoals, PlainOdds, j)
          EXCEPT !.league_id = LeagueOf(f)] :
        f \in FixtureIds, j \in {"J1", NoJornada} }

AdminJornadas == {"", "J1", "current"}

\* the listings and the management of jornadas over a synced store
NextAdmin ==
    \/ \E match_data \in AdminPayloads : Match_create_or_update(match_data)
    \/ \E fixture_id \in FixtureIds : MatchDetailDelete(fixture_id)
    \/ \E jornada_name \in AdminJornadas, is_active \in {"none", "true", "false"} :
          JornadaPut(jornada_name, is_active)
    \/ \E jornada_name \in AdminJornadas : JornadaDelete(jornada_name)
    \/ JornadaGet
    \/ \E league_id \in {0, 39, 140}, jornada \in AdminJornadas,
          is_active \in {"", "true", "false"} :
          MatchListGet(league_id, jornada, is_active)

SpecAdmin == Init /\ [][NextAdmin]_vars

KeptPayloads ==
    {MatchData(f, "NS", isoformat(2), NoGoals, PlainOdds, "J1") : f \in FixtureIds}

KeptTeams == {TeamData(33, "Manchester United", 1878), TeamData(40, "Liverpool", 1892)}

KeptLeagues == {Ok(<<LeagueData("dict", 39, "Premier League")>>),
                Ok(<<LeagueData("dict", 140, "La Liga"),
                     LeagueData("dict", 39, "Premier League")>>)}

\* every operation that writes, or is meant to write, one of the collections
NextWrites ==
    \/ \E match_data \in KeptPayloads : Match_create_or_update(match_data)
    \/ \E team_data \in KeptTeams : Team_create_or_update(team_data)
    \/ \E answer \in KeptLeagues : LeagueListPost(2023, answer, {})
    \/ TeamListPost(39, 2023, Ok(<<TeamData(40, "Liverpool", 1892)>>))
    \/ MatchListPost(39, "7", Ok(<<PlainFixture(1)>>),
                     [f \in 0..MaxFixture |-> Ok(<<>>)])
    \/ JornadaPost([league_id |-> 39, start_date |-> "2024-05-01",
                    end_date |-> "2024-05-07", jornada_name |-> "J1"],
                   Ok(<<PlainFixture(1)>>), [f \in 0..MaxFixture |-> <<>>])
    \/ \E fixture_ids \in {Omitted, Given({1})} : deactivate_matches(fixture_ids)
    \/ \E fixture_id \in FixtureIds : MatchDetailDelete(fixture_id)
    \/ \E fixture_id \in FixtureIds :
          MatchDetailPut(fixture_id, "FT", [home |-> 1, away |-> 0])
    \/ \E is_active \in {"true", "false"} : JornadaPut("J1", is_active)
    \/ JornadaDelete("J1")

SpecWrites == Init /\ [][NextWrites]_vars

\* the coin ledger over a matches collection filled by earlier syncs
RECURSIVE Synced(_)
Synced(payloads) ==
    IF payloads = <<>> THEN <<>>
    ELSE UpdateOneUpsert(Synced(Tail(payloads)), "fixture_id", MatchDoc(Head(payloads)))

FirstFixtures == {MatchData(1, st, isoformat(2), NoGoals, PlainOdds, "J1") :
                    st \in AllStatuses}

SecondFixtures == {MatchData(2, "NS", NoDate, NoGoals, PlainOdds, NoJornada),
                   MatchData(2, "NS", isoformat(1), NoGoals, PlainOdds, "J1")}

\* stores in which the match of jornada J1 has been deactivated
WithdrawnStores ==
    LET a == MatchData(1, "NS", isoformat(2), NoGoals, PlainOdds, "J1")
        b == MatchData(2, "NS", NoDate, NoGoals, PlainOdds, NoJornada)
    IN  {DeactivateMany(Synced(<<a>>), Given({1})),
         DeactivateMany(Synced(<<b, a>>), Given({1}))}

SyncedStores ==
    {<<>>} \cup {Synced(<<a>>) : a \in FirstFixtures}
           \cup {Synced(<<b, a>>) : a \in {x \in FirstFixtures : x.status \in {"NS", "FT"}},
                                    b \in SecondFixtures}
           \cup WithdrawnStores

InitLedger ==
    /\ matches \in SyncedStores
    /\ teams = <<>>
    /\ leagues = <<>>
    /\ InitLedgerVars
    /\ InitApiVars
    /\ last = [op |-> "init"]

NextBatch ==
    \/ Tick
    \/ \E p \in Procs, jornada_arg \in {"", "J1"}, amount \in CmdAmounts,
          force \in BOOLEAN : CmdStart(p, jornada_arg, amount, force)
    \/ \E p \in Procs : CmdUser(p, TRUE)
    \/ \E p \in Procs, amount \in PostAmounts : PostStart(p, "current", amount)
    \/ \E p \in Procs : PostUser(p, TRUE)

SpecBatch == InitLedger /\ [][NextBatch]_vars

\* runs of the assign-coins command one after another, never overlapping
NextRuns ==
    \/ Tick
    \/ \E jornada_arg \in {"", "J1"}, amount \in CmdAmounts, force \in BOOLEAN :
          CmdStart(1, jornada_arg, amount, force)
    \/ CmdUser(1, TRUE)

SpecRuns == InitLedger /\ [][NextRuns]_vars

\* one batch operation at a time, with a mirror that can fail at any write
NextMirror ==
    \/ Tick
    \/ \E jornada_arg \in {"", "J1"}, amount \in CmdAmounts, force \in BOOLEAN :
          CmdStart(1, jornada_arg, amount, force)
    \/ \E mongo_ok \in BOOLEAN : CmdUser(1, mongo_ok)
    \/ \E amount \in PostAmounts : PostStart(1, "current", amount)
    \/ \E mongo_ok \in BOOLEAN : PostUser(1, mongo_ok)

SpecMirror == InitLedger /\ [][NextMirror]_vars

\* POST /assign-coins/ requests one after another, under any jornada name
NextPosts ==
    \/ Tick
    \/ \E jornada_name \in {"current", "J1", "J9"}, amount \in PostAmounts :
          PostStart(1, jornada_name, amount)
    \/ PostUser(1, TRUE)

SpecPosts == InitLedger /\ [][NextPosts]_vars

LoginUsers == {"ana"}

NextLedger ==
    \/ NextBatch
    \/ \E p \in Procs, username \in LoginUsers, authenticated \in BOOLEAN :
          LoginAuth(p, username, authenticated)
    \/ \E p \in Procs : LoginAssign(p, TRUE)

SpecLedger == InitLedger /\ [][NextLedger]_vars

\* one credit operation at a time, with the mirror reachable
NextSolo ==
    \/ Tick
    \/ \E jornada_arg \in {"", "J1"}, amount \in CmdAmounts, force \in BOOLEAN :
          CmdStart(1, jornada_arg, amount, force)
    \/ CmdUser(1, TRUE)
    \/ \E amount \in PostAmounts : PostStart(1, "current", amount)
    \/ PostUser(1, TRUE)
    \/ \E username \in LoginUsers, authenticated \in BOOLEAN :
          LoginAuth(1, username, authenticated)
    \/ LoginAssign(1, TRUE)

SpecSolo == InitLedger /\ [][NextSolo]_vars

----------------------------------------------------------------------------
(* Properties *)

\* the point in time an ISO string denotes
Ticks(date) == date[1] * DayTicks + date[2]

ActiveDocs(jornada_name) ==
    {i \in 1..Len(matches) : matches[i].is_active /\ matches[i].jornada = jornada_name}

\* C1: a run of the assign-coins command without --force over a jornada with
\* an active match whose status is 1H, HT, 2H, AET, PEN or FT is refused as a
\* whole: no user's virtual_coins or last_coins_assignment changes and the
\* run leaves nothing in flight.
C1_StartedRefusesBatch ==
    [][ ( /\ last'.op = "assign_coins"
          /\ started_ops' = started_ops + 1
          /\ ~last'.force
          /\ \E i \in ActiveDocs(last'.jornada) :
                matches[i].status \in {"1H", "HT", "2H", "AET", "PEN", "FT"} )
        => ( /\ users' = users
             /\ procs' = procs
             /\ last'.result = "refused" ) ]_vars

C1_Witness ==
    /\ last.op = "assign_coins"
    /\ ~last.force
    /\ last.result = "refused"
    /\ \E i \in ActiveDocs(last.jornada) : matches[i].status = "PEN"

\* C2: non-forced runs of the assign-coins command credit a user at most once
\* for the same jornada, however many times the command is run.
C2_OncePerJornada ==
    \A k \in DOMAIN grants : grants[k] <= 1

C5_NoLostUpdate ==
    \A u \in Usernames : users[u].virtual_coins = credited[u]

\* two batch operations in flight, both having credited ana already
C5_Witness ==
    /\ \A p \in Procs :
          /\ procs[p].kind \in {"cmd", "post"}
          /\ Len(procs[p].todo) = 1
          /\ Head(procs[p].todo).username = "bob"
    /\ users["ana"].virtual_coins = procs[1].amount + procs[2].amount

WithFixture(fixture_id) ==
    {i \in 1..Len(matches) : matches[i].fixture_id = fixture_id}

\* C6: the matches collection holds at most one document per fixture_id,
\* and after Match.create_or_update saved a payload the one document of its
\* fixture_id carries the payload's score.
C6_UniqueFixture ==
    /\ \A i, j \in 1..Len(matches) :
          matches[i].fixture_id = matches[j].fixture_id => i = j
    /\ ( last.op = "Match.create_or_update" /\ last.result = "saved" )
       => /\ Cardinality(WithFixture(last.fixture_id)) = 1
          /\ \A i \in WithFixture(last.fixture_id) : matches[i].score = last.goals

\* the same fixture_id upserted again with another score
C6_Witness ==
    /\ last.op = "Match.create_or_update"
    /\ last.result = "saved"
    /\ last.matched
    /\ last.score_before.home # Null
    /\ last.goals.home # Null
    /\ last.score_before # last.goals
    /\ Len(matches) = MaxFixture

\* C7 as claimed: for every S, the empty set and an omitted argument
\* included, deactivate_matches(S) clears is_active on exactly the documents
\* whose fixture_id is in S.
C7_DeactivatesExactlyS ==
    [][ last'.op = "Match.deactivate_matches"
        => /\ Len(matches') = Len(matches)
           /\ \A i \in 1..Len(matches) :
                 matches'[i].is_active =
                    IF matches[i].fixture_id \in last'.fixture_ids.ids
                    THEN FALSE ELSE matches[i].is_active ]_vars

\* C7 as amended: for a non-empty S exactly the documents of S are
\* deactivated; for the empty set or an omitted argument every document is.
\* No other field of any document changes.
C7_DeactivatesSOrAll ==
    [][ last'.op = "Match.deactivate_matches"
        => /\ Len(matches') = Len(matches)
           /\ \A i \in 1..Len(matches) :
                 matches'[i] =
                    [matches[i] EXCEPT !.is_active =
                        IF \/ last'.fixture_ids.ids = {}
                           \/ matches[i].fixture_id \in last'.fixture_ids.ids
                        THEN FALSE ELSE matches[i].is_active] ]_vars

C7_Witness ==
    /\ last.op = "Match.deactivate_matches"
    /\ last.fixture_ids.given
    /\ last.fixture_ids.ids # {}
    /\ last.result > 0
    /\ \E i \in 1..Len(matches) :
          matches[i].fixture_id \notin last.fixture_ids.ids /\ matches[i].is_active
    /\ \E i \in 1..Len(matches) :
          matches[i].fixture_id \in last.fixture_ids.ids /\ ~matches[i].is_active

\* the odds the claim expects from the values of a "Match Winner" market
ClaimedOdd(values, name, default) ==
    IF \E i \in 1..Len(values) : values[i].value = name
    THEN values[CHOOSE i \in 1..Len(values) : values[i].value = name].odd
    ELSE default

\* C8: after POST /jornadas/ with all parameters, for a provider answer whose
\* fixtures have an odds payload with a "Match Winner" market at the first
\* bookmaker, the stored match of each fixture carries the named outcomes'
\* odds and the defaults 2.0/3.0/4.0 for the outcomes the market lacks.
C8_JornadaOddsStored ==
    ( /\ last.op = "JornadaManagementView.post"
      /\ last.request.league_id # 0
      /\ last.request.start_date # ""
      /\ last.request.end_date # ""
      /\ last.request.jornada_name # ""
      /\ last.answer.kind = "json"
      /\ ~last.answer.errors )
    => \A n \in 1..Len(last.answer.response) :
          LET fixture == last.answer.response[n]
              data    == last.odds_data[fixture.fixture_id]
          IN  ( /\ fixture.fixture_id # 0
                /\ data # <<>>
                /\ data[1].bookmakers # <<>>
                /\ data[1].bookmakers[1].bets # <<>>
                /\ data[1].bookmakers[1].bets[1].name = "Match Winner" )
              => LET values == data[1].bookmakers[1].bets[1].values
                 IN  \E i \in WithFixture(fixture.fixture_id) :
                        /\ matches[i].jornada = last.request.jornada_name
                        /\ matches[i].odds =
                              [home |-> ClaimedOdd(values, "Home", 20),
                               draw |-> ClaimedOdd(values, "Draw", 30),
                               away |-> ClaimedOdd(values, "Away", 40)]

\* C9: POST /teams/ with a league_id, answered by the provider with N >= 1
\* team objects of distinct ids, answers 200 with count N and leaves one team
\* document per id, carrying name, logo, country and founded of the answer.
C9_TeamsSynced ==
    ( /\ last.op = "TeamListView.post"
      /\ last.league_id # 0
      /\ last.answer.kind = "json"
      /\ ~last.answer.errors
      /\ last.answer.response # <<>>
      /\ \A m, n \in 1..Len(last.answer.response) :
            /\ last.answer.response[m].team_id # 0
            /\ last.answer.response[m].team_id = last.answer.response[n].team_id
               => m = n )
    => /\ last.status = 200
       /\ last.count = Len(last.answer.response)
       /\ \A n \in 1..Len(last.answer.response) :
             Cardinality({i \in 1..Len(teams) :
                            teams[i] = last.answer.response[n]}) = 1

\* C10: for the same operation of the API client, a transport/HTTP error, a
\* provider-reported error payload and a successful empty result give the
\* caller three different results.
C10_ThreeOutcomesDistinct ==
    ( /\ api.op # ""
      /\ api.op = api_prev.op
      /\ api.answer_case \in {"transport", "provider_error", "empty"}
      /\ api_prev.answer_case \in {"transport", "provider_error", "empty"}
      /\ api.answer_case # api_prev.answer_case )
    => api.result # api_prev.result

----------------------------------------------------------------------------
SyncHandlerOps == {"LeagueListView.post", "TeamListView.post",
                   "MatchListView.post", "JornadaManagementView.post"}

ProviderFailed(answer) == answer \in {Transport, ProviderError}

\* C11: whenever a sync handler's provider call fails (transport error or
\* provider-reported error), the handler itself answers with a 5xx error
\* response (no exception leaves it) and matches, teams and leagues are
\* exactly what they were before the request.
C11_ProviderFailureHandled ==
    [][ (/\ last'.op \in SyncHandlerOps
         /\ last'.requested
         /\ ProviderFailed(last'.answer))
        => /\ last'.status \in {500, 503}
           /\ last'.exception = ""
           /\ storeVars' = storeVars ]_vars

\* the request r of a sync handler passed validation and the provider
\* answered a non-empty batch
BatchAnswered(r) ==
    /\ r.op \in SyncHandlerOps
    /\ r.op \in {"TeamListView.post", "MatchListView.post"} => r.league_id # 0
    /\ r.op = "JornadaManagementView.post" =>
          /\ r.request.league_id # 0 /\ r.request.start_date # ""
          /\ r.request.end_date # "" /\ r.request.jornada_name # ""
    /\ r.answer.kind = "json" /\ ~r.answer.errors /\ r.answer.response # <<>>

\* item i of the batch of request r can be transformed and written
ItemGood(r, i) ==
    LET item == r.answer.response[i]
    IN  IF r.op = "LeagueListView.post"
        THEN LeagueItemResult(item, r.write_fails) = "saved"
        ELSE IF r.op = "TeamListView.post" THEN item.team_id # 0
        ELSE MatchCreateResult(item) = "saved"

\* item i of the batch of request r has a document in the collections
ItemStored(r, i, ls, ts, ms) ==
    LET item == r.answer.response[i]
    IN  IF r.op = "LeagueListView.post"
        THEN FindOne(ls, "league_id", item.league_id) # 0
        ELSE IF r.op = "TeamListView.post"
        THEN FindOne(ts, "team_id", item.team_id) # 0
        ELSE FindOne(ms, "fixture_id", item.fixture_id) # 0

\* C12: in every sync handler, when an item of the provider's batch cannot
\* be transformed or written, the request still succeeds and every other
\* item of the batch has its document afterwards.
C12_ItemFailureSkipped ==
    [][ (/\ BatchAnswered(last')
         /\ \E i \in 1..Len(last'.answer.response) : ~ItemGood(last', i))
        => /\ last'.status = 200
           /\ \A i \in 1..Len(last'.answer.response) :
                 ItemGood(last', i) => ItemStored(last', i, leagues', teams', matches')
      ]_vars

----------------------------------------------------------------------------
BatchUserOps == {"assign_coins.user", "AssignCoinsView.post.user"}

\* C13: when the mirror write of one user fails in a turn of the loop of
\* the command or of POST /assign-coins/, that user's relational balance is
\* credited all the same, the mirror document stays as it was, and the loop
\* goes on with the remaining users (or ends normally after the last one).
C13_MirrorFailureTolerated ==
    [][ (/\ last'.op \in BatchUserOps
         /\ ~last'.skipped
         /\ ~last'.mirrored)
        => LET p == last'.p
               u == last'.username
           IN  /\ users'[u].virtual_coins = users[u].virtual_coins + procs[p].amount
               /\ users'[u].last_coins_assignment = now
               /\ mongo_users' = mongo_users
               /\ IF Len(procs[p].todo) > 1
                  THEN /\ procs'[p].kind = procs[p].kind
                       /\ procs'[p].todo = Tail(procs[p].todo)
                  ELSE procs'[p] = Idle ]_vars

\* a command run whose first user's mirror write failed has gone on to
\* credit the second user
C13_Witness ==
    /\ last.op = "assign_coins.user" /\ ~last.skipped
    /\ last.username = "bob"
    /\ users["ana"].virtual_coins > 0 /\ ~mongo_users["ana"].exists
    /\ users["bob"].virtual_coins > 0

----------------------------------------------------------------------------
\* C14: a run of the assign-coins command, forced or not, that is given no
\* --jornada while no match is active, or whose jornada has no active match,
\* reports the error and ends at once: no row of the users table and no
\* mirror document changes, and the run leaves nothing in flight.
C14_NoJornadaNoCredit ==
    [][ (/\ last'.op = "assign_coins"
         /\ started_ops' # started_ops
         /\ \/ last'.jornada_arg = "" /\ get_active_jornadas = {}
            \/ ActiveDocs(last'.jornada) = {})
        => /\ last'.result \in {"no_jornada", "no_matches"}
           /\ last'.result = "no_jornada" <=> last'.jornada = ""
           /\ users' = users /\ mongo_users' = mongo_users
           /\ procs' = procs /\ procs'[last'.p] = Idle ]_vars

\* a forced run over jornada J1, whose only match has been deactivated,
\* ended with "no active matches" while another jornada was active
C14_Witness ==
    /\ last.op = "assign_coins" /\ last.force
    /\ last.jornada = "J1" /\ last.result = "no_matches"
    /\ JornadaDocs("J1") # {} /\ get_active_jornadas # {}
    /\ \A u \in Usernames : users[u].virtual_coins = 0

----------------------------------------------------------------------------
\* C15: POST /assign-coins/ credits unconditionally.  The request takes up
\* every active user and no other; each turn of its loop adds coins_amount
\* to the balance of an active user and stamps last_coins_assignment with
\* the current time, whatever the jornada name, the statuses of the matches
\* and the user's previous last_coins_assignment, and changes no other row;
\* when the request ends, every active user has been credited once per
\* request so far and the inactive user has nothing.
C15_PostCreditsUnconditionally ==
    [][ /\ (last'.op = "AssignCoinsView.post" /\ started_ops' # started_ops)
           => /\ users' = users
              /\ {procs'[last'.p].todo[i].username :
                     i \in 1..Len(procs'[last'.p].todo)}
                 = {u \in Usernames : users[u].is_active}
        /\ last'.op = "AssignCoinsView.post.user"
           => LET p == last'.p
                  u == last'.username
              IN  /\ users[u].is_active
                  /\ users'[u].virtual_coins =
                        users[u].virtual_coins + procs[p].amount
                  /\ users'[u].last_coins_assignment = now
                  /\ \A v \in Usernames \ {u} : users'[v] = users[v]
                  /\ procs'[p] = Idle
                     => \A v \in Usernames :
                           users'[v].virtual_coins =
                              IF users[v].is_active
                              THEN procs[p].amount * started_ops' ELSE 0
      ]_vars

\* a second request, under a jornada name no match carries and with a
\* finished match in the store, has credited ana and bob again
C15_Witness ==
    /\ last.op = "AssignCoinsView.post.user" /\ procs[1] = Idle
    /\ started_ops = 2
    /\ \E i \in 1..Len(matches) : matches[i].status = "FT"
    /\ last.jornada = "J9" /\ JornadaDocs("J9") = {}
    /\ users["ana"].virtual_coins = users["bob"].virtual_coins
    /\ users["ana"].virtual_coins > 50
    /\ users["eve"].virtual_coins = 0

----------------------------------------------------------------------------
\* C16: GET /matches/, under every combination of the league_id and jornada
\* filters, answers with active matches only when is_active is omitted, and
\* with inactive matches only when is_active=false is given.
C16_ListsActiveByDefault ==
    last.op = "MatchListView.get"
    => LET result == last.matches
       IN  /\ last.is_active = ""
              => \A i \in 1..Len(result) : result[i].is_active
           /\ last.is_active = "false"
              => \A i \in 1..Len(result) : ~result[i].is_active

----------------------------------------------------------------------------
\* the request r lacks a parameter its handler requires
MissingRequired(r) ==
    \/ r.op \in {"TeamListView.post", "MatchListView.post"} /\ r.league_id = 0
    \/ /\ r.op = "JornadaManagementView.post"
       /\ \/ r.request.league_id = 0 \/ r.request.start_date = ""
          \/ r.request.end_date = "" \/ r.request.jornada_name = ""

\* C17: POST /teams/ and POST /matches/ without league_id, and POST
\* /jornadas/ without league_id, start_date, end_date or jornada_name, are
\* answered 400, no request is sent to the provider and no document of the
\* store changes.
C17_MissingParameterRejected ==
    [][ MissingRequired(last')
        => /\ last'.status = 400
           /\ ~last'.requested
           /\ storeVars' = storeVars ]_vars

----------------------------------------------------------------------------
\* the payload of the latest create_or_update gives no valid number for the
\* odd k: no odds, odds that are no dict, or a value that is absent, null, a
\* boolean or a string that is no number
OddMalformed(k) ==
    \/ last.odds_kind # "dict"
    \/ last.odds[k].kind \in {"missing", "none", "bool"}
    \/ last.odds[k].kind = "str" /\ last.odds[k].val = Unparsable

\* C18: Match.create_or_update of a payload with a fixture id whose odds are
\* absent, no dict, or malformed for some of home/draw/away succeeds, and
\* the stored match carries the default 2.0/3.0/4.0 for every such odd.
C18_MalformedOddsDefault ==
    ( /\ last.op = "Match.create_or_update"
      /\ last.fixture_id # 0
      /\ \E k \in OddKeys : OddMalformed(k) )
    => /\ last.result = "saved"
       /\ \E i \in WithFixture(last.fixture_id) :
             \A k \in OddKeys :
                OddMalformed(k) => matches[i].odds[k] = DefaultOdds[k]

----------------------------------------------------------------------------
\* the jornada labels carried by at least one active match
ActiveLabels ==
    {j \in {matches[i].jornada : i \in 1..Len(matches)} : ActiveDocs(j) # {}}

C19_StatePart ==
    /\ get_active_jornadas = ActiveLabels
    /\ last.op = "JornadaManagementView.get" => last.active_jornadas = ActiveLabels

C19_StepPart ==
    /\ (last'.op = "JornadaManagementView.delete" /\ last'.jornada_name # "")
       => last'.jornada_name \notin get_active_jornadas'
    /\ ( /\ last'.op = "JornadaManagementView.put"
         /\ last'.is_active = "true"
         /\ \E i \in 1..Len(matches) : matches[i].jornada = last'.jornada_name )
       => last'.jornada_name \in get_active_jornadas'

\* C19: in every state Match.get_active_jornadas, and the answer of GET
\* /jornadas/, is the set of jornada labels carried by at least one active
\* match; after DELETE /jornadas/?jornada_name=X the label X is not in it,
\* and after PUT /jornadas/ with is_active=true for an X that has matches it
\* is.
C19_ActiveJornadas == [](C19_StatePart) /\ [][C19_StepPart]_vars

\* DELETE /jornadas/?jornada_name=J1 has deactivated the matches of J1 while
\* a match of jornada "current" stays active
C19_Witness ==
    /\ last.op = "JornadaManagementView.delete"
    /\ last.jornada_name = "J1" /\ last.status = 200
    /\ \E i \in 1..Len(matches) : matches[i].jornada = "J1"
    /\ get_active_jornadas = {"current"}

----------------------------------------------------------------------------
\* the values of key carried by the documents of coll
Keys(coll, key) == {coll[i][key] : i \in 1..Len(coll)}

DeactivatingOps == {"Match.deactivate_matches", "MatchDetailView.delete",
                    "JornadaManagementView.delete"}

----------------------------------------------------------------------------
\* C21: a run of the assign-coins command with --force over a jornada with
\* at least one active match takes up every active user once, whatever the
\* statuses of the matches; each turn of its loop credits the user at hand
\* by the amount and stamps the time, whatever the user's previous
\* last_coins_assignment, and then moves to the next user; and no turn of
\* any run, forced or not, is about an inactive user.
C21_ForceCreditsEveryone ==
    [][ /\ ( /\ last'.op = "assign_coins" /\ started_ops' # started_ops
             /\ last'.force
             /\ ActiveDocs(last'.jornada) # {} )
           => LET todo == procs'[last'.p].todo
              IN  /\ last'.result = "running"
                  /\ users' = users
                  /\ {todo[i].username : i \in 1..Len(todo)}
                        = {u \in Usernames : users[u].is_active}
                  /\ \A i, j \in 1..Len(todo) :
                        todo[i].username = todo[j].username => i = j
        /\ last'.op = "assign_coins.user"
           => LET p == last'.p
                  u == last'.username
              IN  /\ users[u].is_active
                  /\ u = Head(procs[p].todo).username
                  /\ procs'[p].todo = Tail(procs[p].todo)
                  /\ \A v \in Usernames \ {u} : users'[v] = users[v]
                  /\ last'.force
                     => /\ ~last'.skipped
                        /\ users'[u].virtual_coins =
                              users[u].virtual_coins + procs[p].amount
                        /\ users'[u].last_coins_assignment = now
      ]_vars

\* two forced runs over a jornada whose match has finished have each
\* credited ana and bob, the second after both had been credited already
C21_Witness ==
    /\ last.op = "assign_coins.user" /\ last.force /\ last.username = "bob"
    /\ procs[1] = Idle
    /\ \E i \in 1..Len(matches) : matches[i].is_active /\ matches[i].status = "FT"
    /\ users["ana"].virtual_coins = 2 * DefaultAmount
    /\ users["bob"].virtual_coins = 2 * DefaultAmount
    /\ users["eve"].virtual_coins = 0

----------------------------------------------------------------------------
\* C22: once every operation in flight has ended, the relational balance of
\* a user credited by a login, alone or next to another login, a command
\* run or a POST /assign-coins/ request, is the initial balance (zero) plus
\* every amount credited to that user, under every interleaving.
C22_LoginNoLostUpdate ==
    ( /\ \A p \in Procs : procs[p] = Idle
      /\ last.op = "LoginView.assign_coins_if_needed" )
    => users[last.username].virtual_coins = credited[last.username]

----------------------------------------------------------------------------
\* the latest step credited last.username
CreditStep ==
    \/ last.op \in BatchUserOps /\ ~last.skipped
    \/ last.op = "LoginView.assign_coins_if_needed" /\ last.assigned

\* C23: after a credit by the command, by POST /assign-coins/ or by a login,
\* with the mirror reachable and no other operation in flight, the user's
\* mirror document exists and carries the virtual_coins and the
\* last_coins_assignment of the user's row.
C23_MirrorCarriesNewState ==
    CreditStep
    => LET u == last.username
       IN  /\ mongo_users[u].exists
           /\ mongo_users[u].virtual_coins = users[u].virtual_coins
           /\ mongo_users[u].last_coins_assignment = users[u].last_coins_assignment

----------------------------------------------------------------------------
\* C24: after every Match.create_or_update that saved its payload, whatever
\* the document of the fixture was before, the document is active and its
\* jornada is the payload's, or "current" when the payload has none.
C24_SyncOverwritesFlags ==
    ( last.op = "Match.create_or_update" /\ last.result = "saved" )
    => /\ WithFixture(last.fixture_id) # {}
       /\ \A i \in WithFixture(last.fixture_id) :
             /\ matches[i].is_active
             /\ matches[i].jornada =
                   IF last.jornada = NoJornada THEN "current" ELSE last.jornada

\* a match of jornada J1 that had been deactivated was synced again from a
\* payload without a jornada: it is active again, under "current"
C24_Witness ==
    /\ last.op = "Match.create_or_update" /\ last.result = "saved"
    /\ last.matched /\ ~last.active_before /\ last.jornada_before = "J1"
    /\ last.jornada = NoJornada
    /\ \E i \in WithFixture(last.fixture_id) :
          matches[i].is_active /\ matches[i].jornada = "current"

====
